---- MODULE Spec2Model ----
(***************************************************************************)
(* MazeWalker: the wall scanner (read_maze_file), the grid assembler       *)
(* (create_maze), the backtracking search (navigate_maze, find_paths), the *)
(* diagnosis (find_suggestions) and the solve request path                 *)
(* (CLProcessor.__check_inputs, solve_maze).                               *)
(*                                                                         *)
(* Cells are <<row, col>> with 0-based coordinates, as in the source.      *)
(* The maze is a function from cells to navigational wall masks            *)
(* (Cell.__wall_index); visited and direction are the per-cell public      *)
(* attributes the search mutates; display is the per-cell display index    *)
(* (Cell.__display_index) that draw_maze reads.                            *)
(***************************************************************************)
EXTENDS Integers, Sequences, FiniteSets, TLC

VARIABLES
    img,           \* the two-level image given to read_maze_file
    scanner,       \* read_maze_file: its loop position and scan_index
    height,        \* declared height; grid.shape[0]
    width,         \* declared width; grid.shape[1]
    grid,          \* the wall grid handed to create_maze
    maze,          \* cell -> Cell.__wall_index (<<>> before create_maze)
    visited,       \* cell -> Cell.visited
    direction,     \* cell -> Cell.direction
    display,       \* cell -> Cell.__display_index, what draw_maze shows
    mode,          \* where the program is (see Modes)
    start_cell,    \* cmd_entry.start_cell of the current request
    finish_cell,   \* cmd_entry.finish_cell of the current request
    to_cell,       \* to_cell of the running navigate_maze recursion
    stack,         \* the navigate_maze call stack, innermost frame last
    all_paths,     \* the list passed as all_paths to the running recursion
    maze_path,     \* find_paths: what the top-level navigate_maze returned
    from_start,    \* find_paths: its local list from_start (dead ends)
    result,        \* what find_paths returned (see NoResult)
    solution,      \* solve_maze: from_start after pop(0), when solved
    coordinates,   \* solve_maze: coordinates returned by find_suggestions
    solvesLeft,    \* solve requests the behaviour may still make
    prev,          \* the previous find_paths call: <<start, finish, result>>
    visit_order    \* cells in the order the running search marked them

vars == <<img, scanner, height, width, grid, maze, visited, direction,
          display, mode,
          start_cell, finish_cell, to_cell, stack, all_paths, maze_path,
          from_start, result, solution, coordinates, solvesLeft, prev,
          visit_order>>

---------------------------------------------------------------------------
(* Bounds of the model.                                                    *)

\* A grid has height >= 1, width >= 1 and at most MaxCells cells.
MaxCells == 6

\* Number of wall bits set in an arbitrary wall grid given to create_maze.
MaxWallBits == 3

\* Number of solve requests on one cell graph in SpecRepeat.
MaxSolves == 2

\* An image given to the scanner has at most MaxPixels pixels ...
MaxPixels == 6

\* ... and is scanned with a declared width and height of -1 .. MaxDeclared,
MaxDeclared == 3

\* or is one row of 34 pixels with a black band of 2 * k + 1 pixels,
\* k in 0 .. MaxBandHalf, scanned with width 2 and height 1.
MaxBandHalf == 3

\* Coordinates of the cells in the lists given to find_suggestions run from
\* -1 to MaxCoord.
MaxCoord == 1

\* Longest path in the lists given to find_suggestions.
MaxPathLen == 2

---------------------------------------------------------------------------
(* Cell constants (MazeCell.py).                                           *)

wi_left == 1
wi_top == 2
wi_right == 4
wi_bottom == 8

go_none == 0
go_nodir == 32
go_left == 64
go_up == 128
go_right == 256
go_down == 512

wi_start == 1024
wi_finish == 2048

\* The flag navigate_maze puts in front of a successful path.
Sentinel == <<-1, -1>>

Walls == {wi_left, wi_top, wi_right, wi_bottom}

---------------------------------------------------------------------------
(* Integer bit operations (Python's & and | on non-negative ints).         *)

RECURSIVE BitAnd(_, _)
BitAnd(a, b) ==
    IF a = 0 \/ b = 0 THEN 0
    ELSE (IF a % 2 = 1 /\ b % 2 = 1 THEN 1 ELSE 0)
         + 2 * BitAnd(a \div 2, b \div 2)

RECURSIVE BitOr(_, _)
BitOr(a, b) ==
    IF a = 0 THEN b
    ELSE IF b = 0 THEN a
    ELSE (IF a % 2 = 1 \/ b % 2 = 1 THEN 1 ELSE 0)
         + 2 * BitOr(a \div 2, b \div 2)

---------------------------------------------------------------------------
(* Cell methods (MazeCell.py), on the wall mask of one cell.               *)

\* A variant of add_wall with "&=" in place of "|=".
add_wall_flipped(mask, wall_index) == BitAnd(mask, wall_index)

\* Cell.add_wall: self.__wall_index |= wall_index (the argument is one of
\* wi_left .. wi_bottom here, so the > 16 check never raises).
add_wall(mask, wall_index) == BitOr(mask, wall_index)

\* A variant of remove_wall that leaves the mask as it is.
remove_wall_noop(mask, wall_index) == mask

\* Cell.remove_wall: remove_index = self.__wall_index & wall_index;
\* self.__wall_index -= remove_index.
remove_wall(mask, wall_index) == mask - BitAnd(mask, wall_index)

\* "maze[row][col].wall_index() & mzCell.wi_x" as a truth value.
HasWall(mask, wall_index) == BitAnd(mask, wall_index) # 0

---------------------------------------------------------------------------
(* Cell methods (MazeCell.py), on the display index of one cell.  None of  *)
(* them reads or assigns Cell.__wall_index.                                *)

\* A variant of the display index that follows the wall mask.
display_index_masked(wall_index, mask) == mask

\* Cell.__display_index of a cell constructed with wall_index (line 207)
\* whose wall mask add_wall has since made mask: add_wall (lines 312-353)
\* assigns self.__wall_index only.
display_index(wall_index, mask) == wall_index

\* The direction values set_direction accepts (lines 427-429).
GoValues == {go_none, go_nodir, go_left, go_up, go_right, go_down}

\* A display index without the bit value when it has it.
Without(index, value) ==
    IF BitAnd(index, value) # 0 THEN index - value ELSE index

\* Cell.set_direction: a value that is no direction is answered with a
\* returned (not raised) ValueError and changes nothing; otherwise the five
\* direction bits are taken out and the new direction is added.
set_direction(index, dir) ==
    IF dir \notin GoValues THEN index
    ELSE Without(Without(Without(Without(Without(index, go_nodir),
                                                 go_left), go_up),
                                 go_right), go_down) + dir

\* Cell.set_as_start.
set_as_start(index) ==
    IF BitAnd(index, wi_start) # 0 THEN index
    ELSE Without(index, wi_finish) + wi_start

\* Cell.set_as_finish(show_dot).
set_as_finish(index, show_dot) ==
    LET flagged == IF BitAnd(index, wi_finish) # 0 THEN index
                   ELSE Without(index, wi_start) + wi_finish
    IN  set_direction(flagged, IF show_dot THEN go_nodir ELSE go_none)

---------------------------------------------------------------------------
(* Grid shapes.                                                            *)

Shapes == {hw \in (1..MaxCells) \X (1..MaxCells) : hw[1] * hw[2] <= MaxCells}

CellsOf(h, w) == (0..(h - 1)) \X (0..(w - 1))

Cells == CellsOf(height, width)

InGrid(cell) == cell \in Cells

---------------------------------------------------------------------------
(* read_maze_file (MazeWalker.py 8-157).                                   *)
(* An image is [num_rows, num_cols, pix], pix a function from <<row, col>> *)
(* to 0 (a wall pixel) or 255.                                             *)

RECURSIVE SumOf(_)
SumOf(lst) == IF lst = <<>> THEN 0 ELSE Head(lst) + SumOf(Tail(lst))

\* Line 38: int(sum(lst) / len(lst)), for a non-empty list of indices >= 0.
listAvg(lst) == SumOf(lst) \div Len(lst)

\* Lines 50-51: num_cols // width, num_rows // height.
cell_width == img.num_cols \div width

cell_height == img.num_rows \div height

\* Lines 56-57.
horiz_midpoint == cell_height \div 2

vert_midpoint == cell_width \div 2

\* A variant of lines 91 and 136 without the "+ 0.5".
ClosedIndex_floor(lst, cell) == listAvg(lst) \div cell

\* Lines 91 and 136: int(listAvg(scan_index) / cell + 0.5).  For integers
\* a >= 0 and cell >= 1 the float a / cell + 0.5 is truncated to
\* (2a + cell) div (2 cell): the quotient is exact whenever it is an integer
\* and is otherwise at least 1 / (2 cell) away from one.
ClosedIndex(lst, cell) == (2 * listAvg(lst) + cell) \div (2 * cell)

\* Lines 105 and 148: int(listAvg(scan_index) / cell).
FlushIndex(lst, cell) == listAvg(lst) \div cell

\* Lines 148-153: the index of a run still open at the end of a
\* column scan, with its adjustment in column 0.
FlushColIndex(lst, cols) ==
    LET cindex == FlushIndex(lst, cell_height)
    IN  IF cindex # 0 /\ cols = 0 /\ cindex < height - 1
        THEN cindex + 1
        ELSE cindex

\* Lines 92-95 and 106-109: TRUE when the write raises IndexError.
RowWriteRaises(cindex) == cindex # 0 /\ cindex - 1 >= width

\* Lines 92-95 and 106-109: Grid[rows][0] = 1 or Grid[rows][cindex-1] += 4.
RowWrite(g, rows, cindex) ==
    IF cindex = 0
    THEN [g EXCEPT ![<<rows, 0>>] = wi_left]
    ELSE [g EXCEPT ![<<rows, cindex - 1>>] = @ + wi_right]

\* Lines 137-140 and 149-154: TRUE when the write raises IndexError.
ColWriteRaises(cindex) == cindex # 0 /\ cindex - 1 >= height

\* Lines 137-140, 149-154: Grid[0][cols] += 2 or Grid[cindex-1][cols] += 8.
ColWrite(g, cols, cindex) ==
    IF cindex = 0
    THEN [g EXCEPT ![<<0, cols>>] = @ + wi_top]
    ELSE [g EXCEPT ![<<cindex - 1, cols>>] = @ + wi_bottom]

\* The value of scanner when read_maze_file is not running.
Idle == [phase |-> "idle", line |-> 0, scan |-> 0, scan_index |-> <<>>]

\* CLProcessor.__check_inputs, lines 331-336: TRUE when no ValueError is
\* raised for the declared width and height.
check_dimensions_nonneg(w, h) == ~(w < 0) /\ ~(h < 0)

check_dimensions(w, h) == ~(w < 1) /\ ~(h < 1)

---------------------------------------------------------------------------
(* create_maze (MazeWalker.py 159-242).                                    *)

\* Lines 204-206: one Cell per grid entry, its mask the scanner's value.
LoadCells(g, h, w) == [cell \in CellsOf(h, w) |-> g[cell]]

\* A variant of the loop body without the block of lines 220-224, which
\* gives a cell its LEFT wall.
PropagateCell_noleft(m, cell) ==
    IF cell[1] > 0 /\ HasWall(m[<<cell[1] - 1, cell[2]>>], wi_bottom)
    THEN [m EXCEPT ![cell] = add_wall(m[cell], wi_top)]
    ELSE m

\* A variant of the loop body without the block of lines 214-218, which
\* gives a cell its TOP wall.
PropagateCell_notop(m, cell) ==
    IF cell[2] > 0 /\ HasWall(m[<<cell[1], cell[2] - 1>>], wi_right)
    THEN [m EXCEPT ![cell] = add_wall(m[cell], wi_left)]
    ELSE m

\* Lines 212-224, the body of the double loop for one cell, applied to the
\* maze as it is when the loop reaches that cell.  The loop runs row by row,
\* column by column; the cell above and the cell to the left have already
\* been processed, but neither LEFT nor TOP is ever read by the loop, so
\* the order does not change what is read.
PropagateCell(m, cell) ==
    LET row == cell[1]
        col == cell[2]
        m1 == IF row > 0 /\ HasWall(m[<<row - 1, col>>], wi_bottom)
              THEN [m EXCEPT ![cell] = add_wall(m[cell], wi_top)]
              ELSE m
    IN  IF col > 0 /\ HasWall(m1[<<row, col - 1>>], wi_right)
        THEN [m1 EXCEPT ![cell] = add_wall(m1[cell], wi_left)]
        ELSE m1

\* Lines 212-224: the loop over all cells in row-major order, from index k.
RECURSIVE PropagateFrom(_, _, _, _)
PropagateFrom(m, h, w, k) ==
    IF k >= h * w THEN m
    ELSE PropagateFrom(PropagateCell(m, <<k \div w, k % w>>), h, w, k + 1)

\* Lines 230-234: for col in range(maze_width), seal top and bottom.
RECURSIVE SealColumns(_, _, _, _)
SealColumns(m, h, w, col) ==
    IF col >= w THEN m
    ELSE LET top == <<0, col>>
             bot == <<h - 1, col>>
             m1 == IF ~HasWall(m[top], wi_top)
                   THEN [m EXCEPT ![top] = add_wall(m[top], wi_top)]
                   ELSE m
             m2 == IF ~HasWall(m1[bot], wi_bottom)
                   THEN [m1 EXCEPT ![bot] = add_wall(m1[bot], wi_bottom)]
                   ELSE m1
         IN  SealColumns(m2, h, w, col + 1)

\* A variant of lines 236-240 that seals nothing.
SealRows_open(m, h, w, row) == m

\* Lines 236-240: for row in range(maze_height), seal left and right.
RECURSIVE SealRows(_, _, _, _)
SealRows(m, h, w, row) ==
    IF row >= h THEN m
    ELSE LET lft == <<row, 0>>
             rgt == <<row, w - 1>>
             m1 == IF ~HasWall(m[lft], wi_left)
                   THEN [m EXCEPT ![lft] = add_wall(m[lft], wi_left)]
                   ELSE m
             m2 == IF ~HasWall(m1[rgt], wi_right)
                   THEN [m1 EXCEPT ![rgt] = add_wall(m1[rgt], wi_right)]
                   ELSE m1
         IN  SealRows(m2, h, w, row + 1)

create_maze(g, h, w) ==
    SealRows(SealColumns(PropagateFrom(LoadCells(g, h, w), h, w, 0),
                         h, w, 0),
             h, w, 0)

---------------------------------------------------------------------------
(* Python indexing of the numpy array maze[row][col].                       *)

\* An index i into an axis of length n is valid for -n <= i < n and a
\* negative index counts from the end; anything else raises IndexError.
IndexOK(cell) ==
    /\ -height <= cell[1] /\ cell[1] < height
    /\ -width <= cell[2] /\ cell[2] < width

At(cell) == <<cell[1] % height, cell[2] % width>>

---------------------------------------------------------------------------
(* CLProcessor.__check_inputs (CLProcessor.py 338-356) and the indexing    *)
(* solve_maze does first (MazeWalker.py 286-287).                          *)

\* "x in range(n)" for an integer x.
InRange(x, n) == 0 <= x /\ x < n

\* TRUE when no ValueError is raised: element 0 of each cell is tested
\* against the width and element 1 against the height.
check_inputs(start, finish, w, h) ==
    /\ InRange(start[1], w)
    /\ InRange(finish[1], w)
    /\ InRange(start[2], h)
    /\ InRange(finish[2], h)

---------------------------------------------------------------------------
(* navigate_maze (MazeWalker.py 345-465) as a stack machine.               *)
(* A frame is one activation: from_cell, the maze_path it was given, its   *)
(* local _maze_path, and pc, the statement it is at:                       *)
(*   "enter"  lines 398-418       "left"  lines 430-435                    *)
(*   "up"     lines 436-441       "right" lines 442-447                    *)
(*   "down"   lines 448-453       "record" lines 455-465                   *)
(* A frame whose pc is a direction and that is not the innermost one is     *)
(* waiting for the call it made in that direction.                         *)

Directions == {"left", "up", "right", "down"}

Frame(cell, path) ==
    [from_cell |-> cell, pc |-> "enter", maze_path |-> path,
     _maze_path |-> path]

WallOf(pc) ==
    CASE pc = "left" -> wi_left
      [] pc = "up" -> wi_top
      [] pc = "right" -> wi_right
      [] pc = "down" -> wi_bottom

\* A variant that stores go_right for a move to the left and go_left for a
\* move to the right.
GoOf_mirrored(pc) ==
    CASE pc = "left" -> go_right
      [] pc = "up" -> go_up
      [] pc = "right" -> go_left
      [] pc = "down" -> go_down

GoOf(pc) ==
    CASE pc = "left" -> go_left
      [] pc = "up" -> go_up
      [] pc = "right" -> go_right
      [] pc = "down" -> go_down

\* A variant of the move that calls navigate_maze on the cell it is in.
Neighbour_stay(cell, pc) == cell

\* The cell navigate_maze is called on when moving in direction pc.
Neighbour(cell, pc) ==
    CASE pc = "left" -> <<cell[1], cell[2] - 1>>
      [] pc = "up" -> <<cell[1] - 1, cell[2]>>
      [] pc = "right" -> <<cell[1], cell[2] + 1>>
      [] pc = "down" -> <<cell[1] + 1, cell[2]>>

\* A variant of the order that goes back to the "left" block after "down".
NextPc_again(pc) ==
    CASE pc = "left" -> "up"
      [] pc = "up" -> "right"
      [] pc = "right" -> "down"
      [] pc = "down" -> "left"

\* A variant of the order with the "right" block before the "up" block.
NextPc_rightfirst(pc) ==
    CASE pc = "left" -> "right"
      [] pc = "right" -> "up"
      [] pc = "up" -> "down"
      [] pc = "down" -> "record"

\* A variant of the order without the "down" block.
NextPc_nodown(pc) ==
    CASE pc = "left" -> "up"
      [] pc = "up" -> "right"
      [] pc = "right" -> "record"
      [] pc = "down" -> "record"

\* The order of the four "Try to move" blocks.
NextPc(pc) ==
    CASE pc = "left" -> "up"
      [] pc = "up" -> "right"
      [] pc = "right" -> "down"
      [] pc = "down" -> "record"

\* A variant of the test that never sees the flag.
NotSolved_always(path) == TRUE

\* _maze_path[0] != (-1, -1)
NotSolved(path) == path[1] # Sentinel

\* Lines 406-407: append the finish cell, insert the flag at the front.
SolvedPath(path, cell) == <<Sentinel>> \o Append(path, cell)

\* A variant of line 463 that drops the first entry.
PopLast_first(path) == Tail(path)

\* A variant of line 463 that drops nothing.
PopLast_keep(path) == path

\* Line 463: _maze_path.pop().
PopLast(path) == SubSeq(path, 1, Len(path) - 1)

\* Line 528: len(maze_path) > 1.
IsSolution(path) == Len(path) > 1

Top == stack[Len(stack)]

\* The stack after the innermost call returns `ret`: the caller assigns it
\* to its _maze_path and goes on with the next block.
StackAfterReturn(ret) ==
    IF Len(stack) = 1 THEN <<>>
    ELSE LET caller == stack[Len(stack) - 1]
         IN  Append(SubSeq(stack, 1, Len(stack) - 2),
                    [caller EXCEPT !._maze_path = ret,
                                   !.pc = NextPc(caller.pc)])

\* What find_paths (or the caller of the top-level call) receives.
PathAfterReturn(ret) == IF Len(stack) = 1 THEN ret ELSE maze_path

Searching == mode \in {"forward", "reverse", "retry"}

---------------------------------------------------------------------------
(* find_suggestions (MazeWalker.py 553-693).                               *)

\* Cells occurring in the paths of a list of paths.
CellsOfPaths(paths) ==
    UNION {{paths[i][j] : j \in 1..Len(paths[i])} : i \in 1..Len(paths)}

\* calc_distance, line 629, squared.  The source compares the float
\* ((dr)**2 + (dc)**2) ** 0.5 with 1.0; for the integer dr*dr + dc*dc that
\* comparison is true exactly when the sum is 1 (the square root of a
\* non-negative integer n is 1.0 only for n = 1).
calc_distance_sq(t1, t2) ==
    (t1[1] - t2[1]) * (t1[1] - t2[1]) + (t1[2] - t2[2]) * (t1[2] - t2[2])

\* Lines 644-650: the pairs of the cross products at distance 1.
Candidates(fs, ff) ==
    {c \in CellsOfPaths(fs) \X CellsOfPaths(ff) :
        calc_distance_sq(c[1], c[2]) = 1}

\* A variant of lines 658-678 with the two row cases exchanged.
WallIndexOf_swapped(c) ==
    LET row_shift == c[1][1] - c[2][1]
        col_shift == c[1][2] - c[2][2]
    IN  IF row_shift = -1 THEN wi_top
        ELSE IF row_shift = 1 THEN wi_bottom
        ELSE IF col_shift = -1 THEN wi_right
        ELSE IF col_shift = 1 THEN wi_left
        ELSE 0

\* A variant of lines 658-678 without the case of the left wall.
WallIndexOf_noleft(c) ==
    LET row_shift == c[1][1] - c[2][1]
        col_shift == c[1][2] - c[2][2]
    IN  IF row_shift = -1 THEN wi_bottom
        ELSE IF row_shift = 1 THEN wi_top
        ELSE IF col_shift = -1 THEN wi_right
        ELSE 0

\* Lines 658-678: the wall index chosen for a candidate pair; 0 stands for
\* the branch that raises ValueError.
WallIndexOf(c) ==
    LET row_shift == c[1][1] - c[2][1]
        col_shift == c[1][2] - c[2][2]
    IN  IF row_shift = -1 THEN wi_bottom
        ELSE IF row_shift = 1 THEN wi_top
        ELSE IF col_shift = -1 THEN wi_right
        ELSE IF col_shift = 1 THEN wi_left
        ELSE 0

\* Line 684-685 and 691: the set of coordinate triples.
CoordinateSet(fs, ff) ==
    {<<c[1][1], c[1][2], WallIndexOf(c)>> : c \in Candidates(fs, ff)}

\* Lines 673-678.
SuggestionsRaise(fs, ff) == \E c \in Candidates(fs, ff) : WallIndexOf(c) = 0

\* All sequences that list the elements of S once each.
RECURSIVE Orderings(_)
Orderings(S) ==
    IF S = {} THEN {<<>>}
    ELSE UNION {{<<x>> \o rest : rest \in Orderings(S \ {x})} : x \in S}

\* Python's order on tuples of integers of equal length.
TupleLess(a, b) ==
    \E k \in 1..Len(a) :
        /\ a[k] < b[k]
        /\ \A j \in 1..(k - 1) : a[j] = b[j]

IsSorted(seq) == \A i \in 1..(Len(seq) - 1) : TupleLess(seq[i], seq[i + 1])

\* Lines 691-693: coordinates = list(set(coordinates)); coordinates.sort.
\* The second statement names the method without calling it, so the list
\* keeps the iteration order of the set, which the language leaves to the
\* implementation: any ordering of the set can be returned.
find_suggestions(fs, ff) == Orderings(CoordinateSet(fs, ff))

---------------------------------------------------------------------------
(* Initial states.                                                         *)

NoResult == [kind |-> "none", first |-> <<>>, second |-> <<>>]

\* No image: the wall grid is given.
NoImage == [num_rows |-> 0, num_cols |-> 0, pix |-> <<>>]

\* Wall grids as read_maze_file writes them for the interior walls of a
\* maze: a RIGHT bit on a cell that has a right neighbour, a BOTTOM bit on a
\* cell that has a cell below it.  The outer walls are left to create_maze,
\* which sets them whatever the scan found.
ScanValues(cell, h, w) ==
    {a + b : a \in (IF cell[2] < w - 1 THEN {0, wi_right} ELSE {0}),
             b \in (IF cell[1] < h - 1 THEN {0, wi_bottom} ELSE {0})}

ScanGrids(h, w) ==
    {g \in [CellsOf(h, w) -> {0, wi_right, wi_bottom, wi_right + wi_bottom}] :
        \A cell \in CellsOf(h, w) : g[cell] \in ScanValues(cell, h, w)}

\* Sets of at most k (cell, wall) pairs of an h x w grid.
RECURSIVE BitSets(_, _, _)
BitSets(h, w, k) ==
    IF k = 0 THEN {{}}
    ELSE LET smaller == BitSets(h, w, k - 1)
         IN  smaller \cup
             {S \cup {x} : S \in smaller, x \in CellsOf(h, w) \X Walls}

\* The wall grid in which exactly the bits of S are set.
GridOf(S, h, w) ==
    [cell \in CellsOf(h, w) |->
        (IF <<cell, wi_left>> \in S THEN wi_left ELSE 0)
        + (IF <<cell, wi_top>> \in S THEN wi_top ELSE 0)
        + (IF <<cell, wi_right>> \in S THEN wi_right ELSE 0)
        + (IF <<cell, wi_bottom>> \in S THEN wi_bottom ELSE 0)]

\* Arbitrary wall grids (any of the four bits anywhere), few bits set.
AnyGrids(h, w) == {GridOf(S, h, w) : S \in BitSets(h, w, MaxWallBits)}

\* No cell graph, no request.
InitCells ==
    /\ maze = <<>>
    /\ visited = <<>>
    /\ direction = <<>>
    /\ display = <<>>
    /\ start_cell = <<>>
    /\ finish_cell = <<>>
    /\ to_cell = <<>>
    /\ stack = <<>>
    /\ all_paths = <<>>
    /\ maze_path = <<>>
    /\ from_start = <<>>
    /\ result = NoResult
    /\ solution = <<>>
    /\ coordinates = <<>>
    /\ prev = <<>>
    /\ visit_order = <<>>

\* The wall grid has been produced.
InitRest ==
    /\ img = NoImage
    /\ scanner = Idle
    /\ mode = "scanned"
    /\ InitCells

\* One solve request on a freshly assembled cell graph.
Init ==
    /\ \E hw \in Shapes :
        /\ height = hw[1]
        /\ width = hw[2]
        /\ grid \in ScanGrids(hw[1], hw[2])
    /\ solvesLeft = 1
    /\ InitRest

\* Successive solve requests on the same cell graph.
InitRepeat ==
    /\ \E hw \in Shapes :
        /\ height = hw[1]
        /\ width = hw[2]
        /\ grid \in ScanGrids(hw[1], hw[2])
    /\ solvesLeft = MaxSolves
    /\ InitRest

\* Grids without interior walls, for the requests of a command line.
InitRequest ==
    /\ \E hw \in Shapes :
        /\ height = hw[1]
        /\ width = hw[2]
        /\ grid = [cell \in CellsOf(hw[1], hw[2]) |-> 0]
    /\ solvesLeft = 1
    /\ InitRest

\* One solve request on the 3 x 3 cell graph whose only interior walls are
\* the RIGHT and the BOTTOM wall of cell (0, 0).
InitCorner ==
    /\ height = 3
    /\ width = 3
    /\ grid = [cell \in CellsOf(3, 3) |->
                  IF cell = <<0, 0>> THEN wi_right + wi_bottom ELSE 0]
    /\ solvesLeft = 1
    /\ InitRest

\* Two-level images of at most MaxPixels pixels.
SmallImages ==
    UNION {{[num_rows |-> rc[1], num_cols |-> rc[2], pix |-> f] :
               f \in [(0..(rc[1] - 1)) \X (0..(rc[2] - 1)) -> {0, 255}]} :
           rc \in {x \in (1..MaxPixels) \X (1..MaxPixels) :
                      x[1] * x[2] <= MaxPixels}}

\* One row of 34 pixels, black from column 17 - k to column 17 + k.
BandImages ==
    {[num_rows |-> 1, num_cols |-> 34,
      pix |-> [p \in {0} \X (0..33) |->
                  IF 17 - k <= p[2] /\ p[2] <= 17 + k THEN 0 ELSE 255]] :
        k \in 0..MaxBandHalf}

\* read_maze_file is about to be given an image and a declared width and
\* height.
InitScan ==
    /\ \/ /\ img \in SmallImages
          /\ width \in (-1)..MaxDeclared
          /\ height \in (-1)..MaxDeclared
       \/ /\ img \in BandImages
          /\ width = 2
          /\ height = 1
    /\ scanner = Idle
    /\ grid = <<>>
    /\ solvesLeft = 0
    /\ mode = "image"
    /\ InitCells

\* create_maze alone, on arbitrary wall grids.
InitAssemble ==
    /\ \E hw \in Shapes :
        /\ height = hw[1]
        /\ width = hw[2]
        /\ grid \in AnyGrids(hw[1], hw[2])
    /\ solvesLeft = 0
    /\ InitRest

\* Cells with integer coordinates, in the grid or not.
AnyCells == ((-1)..MaxCoord) \X ((-1)..MaxCoord)

\* Paths of at most n cells.
RECURSIVE PathsUpTo(_)
PathsUpTo(n) ==
    IF n = 1 THEN {<<cell>> : cell \in AnyCells}
    ELSE LET shorter == PathsUpTo(n - 1)
         IN  shorter \cup
             {Append(path, cell) : path \in shorter, cell \in AnyCells}

\* find_paths has returned two lists of paths of cells with integer
\* coordinates to solve_maze, which is about to hand them to
\* find_suggestions (line 328): any path in from_start, any cell in
\* from_finish.
InitSuggest ==
    /\ img = NoImage
    /\ scanner = Idle
    /\ height = 0
    /\ width = 0
    /\ grid = <<>>
    /\ maze = <<>>
    /\ visited = <<>>
    /\ direction = <<>>
    /\ display = <<>>
    /\ mode = "returned"
    /\ start_cell = <<>>
    /\ finish_cell = <<>>
    /\ to_cell = <<>>
    /\ stack = <<>>
    /\ all_paths = <<>>
    /\ maze_path = <<>>
    /\ from_start = <<>>
    /\ \E path \in PathsUpTo(MaxPathLen), cell \in AnyCells :
           result = [kind |-> "paths", first |-> <<path>>,
                     second |-> <<<<cell>>>>]
    /\ solution = <<>>
    /\ coordinates = <<>>
    /\ solvesLeft = 0
    /\ prev = <<>>
    /\ visit_order = <<>>

---------------------------------------------------------------------------
(* Actions.                                                                *)

\* What the scanner steps leave alone.
ScanFrame ==
    UNCHANGED <<img, height, width, maze, display, visited, direction,
                start_cell, finish_cell, to_cell, stack, all_paths, maze_path,
                from_start, result, solution, coordinates, solvesLeft, prev,
                visit_order>>

\* CLProcessor.__check_inputs, lines 331-336, for a command line naming the
\* image, the width and the height.
CheckDimensions ==
    /\ mode = "image"
    /\ mode' = IF check_dimensions(width, height)
               THEN "checked"
               ELSE "ValueError"
    /\ UNCHANGED <<scanner, grid>>
    /\ ScanFrame

\* read_maze_file lines 42-67, called by process_maze for a checked command
\* line or directly with any width and height: np.zeros raises ValueError
\* for a negative dimension, lines 50 and 51 raise ZeroDivisionError for a
\* zero width and a zero height.
ReadMazeFile ==
    /\ mode \in {"image", "checked"}
    /\ IF height < 0 \/ width < 0
       THEN /\ mode' = "ValueError"
            /\ UNCHANGED <<scanner, grid>>
       ELSE IF width = 0 \/ height = 0
       THEN /\ mode' = "ZeroDivisionError"
            /\ UNCHANGED <<scanner, grid>>
       ELSE /\ mode' = "scanning"
            /\ grid' = [cell \in CellsOf(height, width) |-> 0]
            /\ scanner' = [phase |-> "rows", line |-> 0, scan |-> 0,
                           scan_index |-> <<>>]
    /\ ScanFrame

\* The scanner after a write with boundary index cindex computed with a
\* cell dimension cell: ZeroDivisionError for a zero divisor, IndexError
\* for an entry outside the grid, the write otherwise.
AfterWrite(cell, raises, written, next) ==
    IF cell = 0
    THEN /\ mode' = "ZeroDivisionError"
         /\ UNCHANGED <<scanner, grid>>
    ELSE IF raises
    THEN /\ mode' = "IndexError"
         /\ UNCHANGED <<scanner, grid>>
    ELSE /\ grid' = written
         /\ scanner' = next
         /\ UNCHANGED mode

\* Lines 69-97: one pixel of the scan across the centre of a row.
ScanRowPixel ==
    /\ mode = "scanning"
    /\ scanner.phase = "rows"
    /\ scanner.scan < img.num_cols
    /\ LET rows == scanner.line
           scan == scanner.scan
           row_centre == horiz_midpoint + cell_height * rows
           run == scanner.scan_index
           on == [scanner EXCEPT !.scan = scan + 1]
       IN  IF img.pix[<<row_centre, scan>>] = 0
           THEN /\ scanner' = [on EXCEPT !.scan_index = Append(run, scan)]
                /\ UNCHANGED <<grid, mode>>
           ELSE IF run # <<>>
           THEN AfterWrite(cell_width,
                           RowWriteRaises(ClosedIndex(run, cell_width)),
                           RowWrite(grid, rows, ClosedIndex(run, cell_width)),
                           [on EXCEPT !.scan_index = <<>>])
           ELSE /\ scanner' = on
                /\ UNCHANGED <<grid, mode>>
    /\ ScanFrame

\* Lines 99-110 and the step to the next row, or to the first column
\* (lines 112-116) after the last row.
FlushRow ==
    /\ mode = "scanning"
    /\ scanner.phase = "rows"
    /\ scanner.scan = img.num_cols
    /\ LET rows == scanner.line
           run == scanner.scan_index
           next == IF rows + 1 < height
                   THEN [phase |-> "rows", line |-> rows + 1, scan |-> 0,
                         scan_index |-> <<>>]
                   ELSE [phase |-> "cols", line |-> 0, scan |-> 0,
                         scan_index |-> <<>>]
       IN  IF run # <<>>
           THEN AfterWrite(cell_width,
                           RowWriteRaises(FlushIndex(run, cell_width)),
                           RowWrite(grid, rows, FlushIndex(run, cell_width)),
                           next)
           ELSE /\ scanner' = next
                /\ UNCHANGED <<grid, mode>>
    /\ ScanFrame

\* Lines 118-141: one pixel of the scan down the centre of a column.
ScanColPixel ==
    /\ mode = "scanning"
    /\ scanner.phase = "cols"
    /\ scanner.scan < img.num_rows
    /\ LET cols == scanner.line
           scan == scanner.scan
           col_centre == vert_midpoint + cell_width * cols
           run == scanner.scan_index
           on == [scanner EXCEPT !.scan = scan + 1]
       IN  IF img.pix[<<scan, col_centre>>] = 0
           THEN /\ scanner' = [on EXCEPT !.scan_index = Append(run, scan)]
                /\ UNCHANGED <<grid, mode>>
           ELSE IF run # <<>>
           THEN AfterWrite(cell_height,
                           ColWriteRaises(ClosedIndex(run, cell_height)),
                           ColWrite(grid, cols, ClosedIndex(run, cell_height)),
                           [on EXCEPT !.scan_index = <<>>])
           ELSE /\ scanner' = on
                /\ UNCHANGED <<grid, mode>>
    /\ ScanFrame

\* Lines 142-155 and the step to the next column, or the return of the
\* grid (line 157) after the last column.
FlushCol ==
    /\ mode = "scanning"
    /\ scanner.phase = "cols"
    /\ scanner.scan = img.num_rows
    /\ LET cols == scanner.line
           run == scanner.scan_index
           last == ~(cols + 1 < width)
           next == IF last
                   THEN Idle
                   ELSE [phase |-> "cols", line |-> cols + 1, scan |-> 0,
                         scan_index |-> <<>>]
       IN  IF run # <<>> /\ cell_height = 0
           THEN /\ mode' = "ZeroDivisionError"
                /\ UNCHANGED <<scanner, grid>>
           ELSE IF run # <<>> /\ ColWriteRaises(FlushColIndex(run, cols))
           THEN /\ mode' = "IndexError"
                /\ UNCHANGED <<scanner, grid>>
           ELSE /\ grid' = IF run # <<>>
                           THEN ColWrite(grid, cols, FlushColIndex(run, cols))
                           ELSE grid
                /\ scanner' = next
                /\ mode' = IF last THEN "scanned" ELSE mode
    /\ ScanFrame

\* process_maze, line 282: create_maze(read_maze_file(...)).  Cell.__init__
\* (MazeCell.py 206-209) sets visited = False and direction = go_none.
CreateMaze ==
    /\ mode = "scanned"
    /\ maze' = create_maze(grid, height, width)
    /\ visited' = [cell \in Cells |-> FALSE]
    /\ direction' = [cell \in Cells |-> go_none]
    /\ display' = [cell \in Cells |-> display_index(grid[cell], maze'[cell])]
    /\ mode' = "ready"
    /\ UNCHANGED <<img, scanner, height, width, grid, start_cell,
                   finish_cell, to_cell, stack, all_paths, maze_path,
                   from_start, result, solution, coordinates, solvesLeft,
                   prev, visit_order>>

\* solve_maze line 286: Maze[start_cell].set_as_start().
MarkStart(d, start) == [d EXCEPT ![At(start)] = set_as_start(@)]

\* solve_maze lines 286-287: the start cell, then the finish cell.
MarkEnds(d, start, finish) ==
    [MarkStart(d, start) EXCEPT ![At(finish)] = set_as_finish(@, FALSE)]

\* solve_maze lines 312-318: every cell of the path is given the arrow of
\* its direction attribute, then the finish cell is given the dot.
ShowSolution(d, path, finish) ==
    LET arrows == [cell \in DOMAIN d |->
                      IF \E i \in 1..Len(path) : At(path[i]) = cell
                      THEN set_direction(d[cell], direction[cell])
                      ELSE d[cell]]
    IN  [arrows EXCEPT ![At(finish)] = set_as_finish(@, TRUE)]

\* find_paths lines 506-524, up to its first navigate_maze call.  The loop
\* of lines 510-512 evaluates the attribute cell.clear_navigation without
\* calling it: no cell is changed.
StartFindPaths(start, finish) ==
    /\ mode' = "forward"
    /\ to_cell' = finish
    /\ stack' = <<Frame(start, <<start>>)>>
    /\ visit_order' = <<>>
    /\ UNCHANGED <<visited, direction>>

\* A variant in which a search goes on with the list of the search before
\* it, as calls that share one default list would.
NewList_shared(old) == old

\* The list a search is started with: find_paths creates it ("from_start =
\* []" at line 515, "from_finish = []" at line 537) and passes it as
\* all_paths, and every recursive call passes all_paths on, so the default
\* value of the parameter (line 345) is never used.
NewList(old) == <<>>

\* What every solve request does to the bookkeeping of the model.
NewRequest(start, finish) ==
    /\ solvesLeft' = solvesLeft - 1
    /\ start_cell' = start
    /\ finish_cell' = finish
    /\ prev' = IF mode = "ready" THEN prev
               ELSE <<start_cell, finish_cell, result>>
    /\ result' = NoResult
    /\ solution' = <<>>
    /\ coordinates' = <<>>
    /\ from_start' = <<>>
    /\ all_paths' = NewList(all_paths)
    /\ maze_path' = <<>>

\* solve_maze (lines 284-303) called with a start and a finish cell of the
\* grid, on a new cell graph or, as MazeGUI.__solve_maze does when Solve is
\* pressed again, on the cell graph of the previous solve with the same
\* start and finish.
Solve(start, finish) ==
    /\ mode \in {"ready", "solved", "unsolved"}
    /\ solvesLeft > 0
    /\ mode # "ready" => (start = start_cell /\ finish = finish_cell)
    /\ NewRequest(start, finish)
    /\ display' = MarkEnds(display, start, finish)
    /\ StartFindPaths(start, finish)
    /\ UNCHANGED <<img, scanner, height, width, grid, maze>>

\* Coordinates a command line may name: one beyond the grid on either side.
RequestCoords ==
    (-1)..(IF height > width THEN height ELSE width)

RequestCells == RequestCoords \X RequestCoords

\* A solve request from a command line: CLProcessor.__check_inputs, then
\* solve_maze, whose first statements index Maze[start_cell] and
\* Maze[finish_cell], then find_paths.
SolveRequest(start, finish) ==
    /\ mode = "ready"
    /\ solvesLeft > 0
    /\ NewRequest(start, finish)
    /\ IF ~check_inputs(start, finish, width, height)
       THEN /\ mode' = "ValueError"
            /\ UNCHANGED <<to_cell, stack, visited, direction, display,
                           visit_order>>
       ELSE IF ~IndexOK(start)
       THEN /\ mode' = "IndexError"
            /\ UNCHANGED <<to_cell, stack, visited, direction, display,
                           visit_order>>
       ELSE IF ~IndexOK(finish)
       THEN /\ mode' = "IndexError"
            /\ display' = MarkStart(display, start)
            /\ UNCHANGED <<to_cell, stack, visited, direction, visit_order>>
       ELSE /\ display' = MarkEnds(display, start, finish)
            /\ StartFindPaths(start, finish)
    /\ UNCHANGED <<img, scanner, height, width, grid, maze>>

\* navigate_maze lines 398-418: copy the path, test for the finish cell,
\* test visited and the flag, mark the cell.
Enter ==
    /\ Searching
    /\ stack # <<>>
    /\ Top.pc = "enter"
    /\ LET cell == Top.from_cell
           path == Top._maze_path
           solved == SolvedPath(path, cell)
       IN  IF cell = to_cell
           THEN /\ stack' = StackAfterReturn(solved)
                /\ maze_path' = PathAfterReturn(solved)
                /\ UNCHANGED <<visited, mode, visit_order>>
           ELSE IF ~IndexOK(cell)
           THEN /\ mode' = "IndexError"
                /\ UNCHANGED <<visited, stack, maze_path, visit_order>>
           ELSE IF ~visited[At(cell)] /\ NotSolved(path)
           THEN /\ visited' = [visited EXCEPT ![At(cell)] = TRUE]
                /\ visit_order' = Append(visit_order, cell)
                /\ stack' = [stack EXCEPT ![Len(stack)] =
                                [@ EXCEPT !._maze_path = Append(path, cell),
                                          !.pc = "left"]]
                /\ UNCHANGED <<maze_path, mode>>
           ELSE /\ stack' = StackAfterReturn(path)
                /\ maze_path' = PathAfterReturn(path)
                /\ UNCHANGED <<visited, mode, visit_order>>
    /\ UNCHANGED <<img, scanner, height, width, grid,
                   maze, display, direction, start_cell,
                   finish_cell, to_cell, all_paths, from_start, result,
                   solution, coordinates, solvesLeft, prev>>

\* One of the four "Try to move" blocks, lines 430-453: when the wall is
\* absent and the flag is not set, store the direction and call
\* navigate_maze on the neighbour with the current path.
TryMove ==
    /\ Searching
    /\ stack # <<>>
    /\ Top.pc \in Directions
    /\ LET cell == Top.from_cell
           path == Top._maze_path
           pc == Top.pc
       IN  IF ~HasWall(maze[At(cell)], WallOf(pc)) /\ NotSolved(path)
           THEN /\ direction' = [direction EXCEPT ![At(cell)] = GoOf(pc)]
                /\ stack' = Append(stack, Frame(Neighbour(cell, pc), path))
           ELSE /\ stack' = [stack EXCEPT ![Len(stack)].pc = NextPc(pc)]
                /\ UNCHANGED direction
    /\ UNCHANGED <<img, scanner, height, width, grid,
                   maze, display, visited, mode, start_cell,
                   finish_cell, to_cell, all_paths, maze_path, from_start,
                   result, solution, coordinates, solvesLeft, prev,
                   visit_order>>

\* Lines 455-465: record the dead end, drop the cell, return.
Record ==
    /\ Searching
    /\ stack # <<>>
    /\ Top.pc = "record"
    /\ LET path == Top._maze_path
           ret == IF NotSolved(path)
                  THEN PopLast(path)
                  ELSE path
       IN  /\ all_paths' = IF NotSolved(path)
                           THEN Append(all_paths, path)
                           ELSE all_paths
           /\ stack' = StackAfterReturn(ret)
           /\ maze_path' = PathAfterReturn(ret)
    /\ UNCHANGED <<img, scanner, height, width, grid,
                   maze, display, visited, direction, mode,
                   start_cell, finish_cell, to_cell, from_start, result,
                   solution, coordinates, solvesLeft, prev, visit_order>>

\* find_paths lines 522-546, once the search from start has returned: a
\* path of more than one entry is returned with an empty second list;
\* otherwise (the loop of lines 533-535 again changes no cell) the search
\* is run from finish to start with a new list.  from_start is the list
\* that was passed as all_paths.
ForwardDone ==
    /\ mode = "forward"
    /\ stack = <<>>
    /\ from_start' = all_paths
    /\ IF IsSolution(maze_path)
       THEN /\ result' = [kind |-> "path", first |-> maze_path,
                          second |-> <<>>]
            /\ mode' = "returned"
            /\ UNCHANGED <<to_cell, stack, all_paths, visit_order>>
       ELSE /\ mode' = "reverse"
            /\ to_cell' = start_cell
            /\ stack' = <<Frame(finish_cell, <<finish_cell>>)>>
            /\ all_paths' = NewList(all_paths)
            /\ visit_order' = <<>>
            /\ UNCHANGED result
    /\ UNCHANGED <<img, scanner, height, width, grid,
                   maze, display, visited, direction,
                   start_cell, finish_cell, maze_path, solution,
                   coordinates, solvesLeft, prev>>

\* find_paths lines 548-551, once the search from finish has returned:
\* return from_start and from_finish (the list passed as all_paths).
ReverseDone ==
    /\ mode = "reverse"
    /\ stack = <<>>
    /\ result' = [kind |-> "paths", first |-> from_start,
                  second |-> all_paths]
    /\ mode' = "returned"
    /\ UNCHANGED <<img, scanner, height, width, grid,
                   maze, display, visited, direction,
                   start_cell, finish_cell, to_cell, stack, all_paths,
                   maze_path, from_start, solution, coordinates,
                   solvesLeft, prev, visit_order>>

\* solve_maze lines 305-343, with the pair find_paths returned.  Line 305
\* indexes from_start[0] (IndexError on an empty list) and compares it
\* with the tuple (-1, -1); a list of cells never equals a tuple.  In the
\* other branch find_suggestions is called; when from_start is a flat path
\* from_finish is empty and the loops of find_suggestions do nothing.
Report ==
    /\ mode = "returned"
    /\ IF result.first = <<>>
       THEN /\ mode' = "IndexError"
            /\ UNCHANGED <<solution, coordinates, display>>
       ELSE IF result.kind = "path" /\ result.first[1] = Sentinel
       THEN /\ mode' = "solved"
            /\ solution' = Tail(result.first)
            /\ display' = ShowSolution(display, Tail(result.first),
                                       finish_cell)
            /\ UNCHANGED coordinates
       ELSE IF result.kind = "path"
       THEN /\ mode' = "unsolved"
            /\ coordinates' = <<>>
            /\ UNCHANGED <<solution, display>>
       ELSE IF SuggestionsRaise(result.first, result.second)
       THEN /\ mode' = "ValueError"
            /\ UNCHANGED <<solution, coordinates, display>>
       ELSE /\ mode' = "unsolved"
            /\ coordinates' \in find_suggestions(result.first, result.second)
            /\ UNCHANGED <<solution, display>>
    /\ UNCHANGED <<img, scanner, height, width, grid,
                   maze, visited, direction,
                   start_cell, finish_cell, to_cell, stack, all_paths,
                   maze_path, from_start, result, solvesLeft, prev,
                   visit_order>>

\* A suggested wall is taken out with Cell.remove_wall, every visited flag
\* is set back to False and navigate_maze is run again from start to
\* finish with a new list.  coordinates keeps the suggestion applied.
ApplySuggestion(i) ==
    /\ mode = "unsolved"
    /\ i \in 1..Len(coordinates)
    /\ LET coord == coordinates[i]
           cell == <<coord[1], coord[2]>>
       IN  /\ maze' = [maze EXCEPT ![cell] = remove_wall(@, coord[3])]
           /\ coordinates' = <<coord>>
    /\ visited' = [cell \in Cells |-> FALSE]
    /\ mode' = "retry"
    /\ to_cell' = finish_cell
    /\ stack' = <<Frame(start_cell, <<start_cell>>)>>
    /\ all_paths' = NewList(all_paths)
    /\ maze_path' = <<>>
    /\ visit_order' = <<>>
    /\ UNCHANGED <<img, scanner, height, width, grid,
                   direction, display, start_cell, finish_cell,
                   from_start, result, solution, solvesLeft, prev>>

\* The re-run has returned.
RetryDone ==
    /\ mode = "retry"
    /\ stack = <<>>
    /\ mode' = "retried"
    /\ UNCHANGED <<img, scanner, height, width, grid,
                   maze, display, visited, direction,
                   start_cell, finish_cell, to_cell, stack, all_paths,
                   maze_path, from_start, result, solution, coordinates,
                   solvesLeft, prev, visit_order>>

---------------------------------------------------------------------------
(* Specifications.                                                         *)

SolveAny ==
    /\ mode \in {"ready", "solved", "unsolved"}
    /\ solvesLeft > 0
    /\ \E start \in Cells, finish \in Cells : Solve(start, finish)

Request ==
    /\ mode = "ready"
    /\ \E start \in RequestCells, finish \in RequestCells :
           SolveRequest(start, finish)

Retry ==
    /\ mode = "unsolved"
    /\ \E i \in 1..Len(coordinates) : ApplySuggestion(i)

Next ==
    \/ CreateMaze
    \/ SolveAny
    \/ Enter
    \/ TryMove
    \/ Record
    \/ ForwardDone
    \/ ReverseDone
    \/ Report
    \/ Retry
    \/ RetryDone

\* One solve on a freshly assembled cell graph.
Spec == Init /\ [][Next]_vars

\* One solve, every started navigate_maze call running on: the interpreter
\* executes the statements of a call one after the other.
SpecRun ==
    /\ Init
    /\ [][Next]_vars
    /\ WF_vars(Enter)
    /\ WF_vars(TryMove)
    /\ WF_vars(Record)

\* Successive solves on the same cell graph.
SpecRepeat == InitRepeat /\ [][Next]_vars

NextAssemble == CreateMaze

\* create_maze on arbitrary wall grids.
SpecAssemble == InitAssemble /\ [][NextAssemble]_vars

NextRequest == CreateMaze \/ Request

\* One solve on the 3 x 3 cell graph with cell (0, 0) walled in.
SpecCorner == InitCorner /\ [][Next]_vars

NextScan ==
    \/ CheckDimensions
    \/ ReadMazeFile
    \/ ScanRowPixel
    \/ FlushRow
    \/ ScanColPixel
    \/ FlushCol
    \/ CreateMaze

\* read_maze_file on small images, then create_maze.
SpecScan == InitScan /\ [][NextScan]_vars

NextSuggest == Report

\* find_suggestions on lists of paths of arbitrary cells.
SpecSuggest == InitSuggest /\ [][NextSuggest]_vars

\* Command-line solve requests on wall-free grids of every shape.
SpecRequest == InitRequest /\ [][NextRequest]_vars

---------------------------------------------------------------------------
(* Reference notions the properties are stated with.                       *)

\* The cell across side w of a cell.
Across(cell, w) ==
    CASE w = wi_left -> <<cell[1], cell[2] - 1>>
      [] w = wi_top -> <<cell[1] - 1, cell[2]>>
      [] w = wi_right -> <<cell[1], cell[2] + 1>>
      [] w = wi_bottom -> <<cell[1] + 1, cell[2]>>

\* b is entered from a through a side of a that has no wall bit in m.
OpenMove(m, a, b) ==
    \E w \in Walls : b = Across(a, w) /\ ~HasWall(m[a], w)

\* The cells of the grid reachable from the cells of S by open moves in m.
RECURSIVE ReachableFrom(_, _)
ReachableFrom(m, S) ==
    LET more == S \cup {b \in DOMAIN m : \E a \in S : OpenMove(m, a, b)}
    IN  IF more = S THEN S ELSE ReachableFrom(m, more)

\* find_paths has returned a path that carries the flag.
ReturnedSolved ==
    /\ mode = "returned"
    /\ result.kind = "path"
    /\ result.first[1] = Sentinel

\* find_paths has returned its two lists of dead ends.
ReturnedUnsolved ==
    /\ mode = "returned"
    /\ result.kind = "paths"

\* The cell graph had no visited cell when the current call began.
FirstCall == prev = <<>>

---------------------------------------------------------------------------
(* C1 - C4: find_paths.                                                    *)

\* C1 (as claimed): when find_paths returns a path carrying the flag, the
\* path without the flag starts at start, ends at finish, and every two
\* consecutive elements are grid-adjacent cells with no wall bit on the side
\* of the earlier cell that faces the later one.
C1_SolutionIsAWalk ==
    ReturnedSolved =>
        LET path == Tail(result.first)
        IN  /\ path[1] = start_cell
            /\ path[Len(path)] = finish_cell
            /\ \A i \in 1..(Len(path) - 1) :
                   OpenMove(maze, path[i], path[i + 1])

\* C2: on a cell graph with no visited cell, find_paths returns a path
\* carrying the flag exactly when finish is reachable from start by moves
\* that each leave a cell through a side whose wall bit is not set.
C2_SolvedIffReachable ==
    (mode = "returned" /\ FirstCall) =>
        (ReturnedSolved <=> finish_cell \in ReachableFrom(maze, {start_cell}))

\* C2 witness: a solution of at least two moves was returned.
C2_Witness ==
    /\ ReturnedSolved
    /\ FirstCall
    /\ Len(result.first) >= 5
    /\ finish_cell \in ReachableFrom(maze, {start_cell})

\* C3: find_paths has two result shapes.  Either the search from start
\* returned more than one entry, the first of them the flag, and that path
\* is returned with an empty second list; or the search from start returned
\* exactly [start], and the two lists of dead ends are returned, with the
\* flag nowhere in them.
C3_TwoResultShapes ==
    /\ (mode = "forward" /\ stack = <<>>) =>
           \/ IsSolution(maze_path) /\ maze_path[1] = Sentinel
           \/ maze_path = <<start_cell>>
    /\ mode = "returned" =>
           \/ /\ result.kind = "path"
              /\ result.first = maze_path
              /\ Len(result.first) > 1
              /\ result.first[1] = Sentinel
              /\ result.second = <<>>
           \/ /\ result.kind = "paths"
              /\ result.first = from_start
              /\ result.second = all_paths
              /\ Sentinel \notin CellsOfPaths(result.first)
              /\ Sentinel \notin CellsOfPaths(result.second)

\* C3 witness: both shapes on the same cell graph: a second call returned
\* lists of dead ends after the first call had returned a solution.
C3_Witness ==
    /\ ReturnedUnsolved
    /\ prev # <<>>
    /\ prev[3].kind = "path"
    /\ result.second # <<>>

\* C4 (as claimed): a second find_paths call on the same cell graph with
\* the same start and finish returns what the first call returned.
C4_SecondCallSameResult ==
    (mode = "returned" /\ prev # <<>>
        /\ prev[1] = start_cell /\ prev[2] = finish_cell) =>
        result = prev[3]

---------------------------------------------------------------------------
(* C5, C6: create_maze.                                                    *)

\* C5: after create_maze, whatever the wall grid and its shape, every
\* row-0 cell has TOP, every last-row cell has BOTTOM, every column-0 cell
\* has LEFT and every last-column cell has RIGHT in its mask.
C5_BoundarySealed ==
    mode = "ready" =>
        \A cell \in Cells :
            /\ cell[1] = 0 => HasWall(maze[cell], wi_top)
            /\ cell[1] = height - 1 => HasWall(maze[cell], wi_bottom)
            /\ cell[2] = 0 => HasWall(maze[cell], wi_left)
            /\ cell[2] = width - 1 => HasWall(maze[cell], wi_right)

\* C5 witness: a grid of more than one row and column whose corner cells
\* had no wall bit at all has been assembled.
C5_Witness ==
    /\ mode = "ready"
    /\ height >= 2
    /\ width >= 2
    /\ grid[<<0, 0>>] = 0
    /\ grid[<<height - 1, width - 1>>] = 0

\* The wall grid has LEFT only in column 0 and TOP only in row 0.
LeftTopOnlyOnEdge ==
    \A cell \in Cells :
        /\ HasWall(grid[cell], wi_left) => cell[2] = 0
        /\ HasWall(grid[cell], wi_top) => cell[1] = 0

\* C6: for a wall grid with LEFT only in column 0 and TOP only in row 0,
\* after create_maze a cell has RIGHT exactly when its right neighbour has
\* LEFT, and has BOTTOM exactly when the cell below it has TOP.
C6_WallsSeenFromBothSides ==
    (mode = "ready" /\ LeftTopOnlyOnEdge) =>
        \A cell \in Cells :
            /\ cell[2] < width - 1 =>
                   (HasWall(maze[cell], wi_right)
                        <=> HasWall(maze[Across(cell, wi_right)], wi_left))
            /\ cell[1] < height - 1 =>
                   (HasWall(maze[cell], wi_bottom)
                        <=> HasWall(maze[Across(cell, wi_bottom)], wi_top))

\* C6 witness: such a grid with an interior RIGHT wall and an interior
\* BOTTOM wall, and an interior pair without a wall, has been assembled.
C6_Witness ==
    /\ mode = "ready"
    /\ LeftTopOnlyOnEdge
    /\ \E cell \in Cells :
           cell[2] < width - 1 /\ HasWall(grid[cell], wi_right)
    /\ \E cell \in Cells :
           cell[1] < height - 1 /\ HasWall(grid[cell], wi_bottom)
    /\ \E cell \in Cells :
           cell[2] < width - 1 /\ ~HasWall(grid[cell], wi_right)

---------------------------------------------------------------------------
(* C7 - C9: find_suggestions.                                              *)

\* solve_maze has called find_suggestions on two lists of dead ends.
Suggested ==
    /\ mode = "unsolved"
    /\ result.kind = "paths"

CoordinatesReturned == {coordinates[i] : i \in 1..Len(coordinates)}

\* C7: find_suggestions returns (r, c, w) exactly when (r, c) occurs in a
\* path of from_start and the cell across wall w of it occurs in a path of
\* from_finish; nothing else is returned.
C7_SuggestionIffAdjacentPair ==
    Suggested =>
        /\ CoordinatesReturned \subseteq
               {<<cell[1], cell[2], w>> : cell \in Cells, w \in Walls}
        /\ \A cell \in Cells, w \in Walls :
               <<cell[1], cell[2], w>> \in CoordinatesReturned
                   <=> /\ cell \in CellsOfPaths(result.first)
                       /\ Across(cell, w) \in CellsOfPaths(result.second)

\* C7 witness: find_suggestions returned at least two coordinates.
C7_Witness ==
    /\ Suggested
    /\ Len(coordinates) >= 2

\* C8 (as claimed): the coordinates find_suggestions returns have no
\* duplicate and are in ascending order.
C8_CoordinatesSorted ==
    Suggested => IsSorted(coordinates)

\* Cells of the grid the re-run from start has reached: those it marked
\* visited and those on the path it returned.
ReachedByRetry ==
    {cell \in Cells : visited[cell]}
        \cup ({maze_path[i] : i \in 1..Len(maze_path)} \ {Sentinel})

---------------------------------------------------------------------------
(* C10: the bounds check of a solve request.                               *)

\* C10 (as claimed): a request is rejected with an error before any search
\* runs exactly when its start or its finish cell lies outside the grid.
C10_RejectedIffOutOfBounds ==
    /\ mode \in {"ValueError", "IndexError"} =>
           ~(InGrid(start_cell) /\ InGrid(finish_cell))
    /\ mode = "forward" => (InGrid(start_cell) /\ InGrid(finish_cell))

---------------------------------------------------------------------------
(* C11, C14: read_maze_file.                                               *)

\* C11: with a declared width or height that is zero or negative, the
\* command line is rejected with ValueError and read_maze_file, when it is
\* called, raises ValueError (negative) or ZeroDivisionError (zero); no
\* wall grid and no cell graph is ever produced.
C11_NonPositiveDimensionsFail ==
    (width < 1 \/ height < 1) =>
        /\ mode \in {"image", "ValueError", "ZeroDivisionError"}
        /\ grid = <<>>
        /\ maze = <<>>

\* C11 witness: read_maze_file has failed on a zero height with a positive
\* width.
C11_Witness ==
    /\ mode = "ZeroDivisionError"
    /\ height = 0
    /\ width > 0
    /\ maze = <<>>

\* k is an integer nearest to the mean of the indices of run divided by
\* cell: |k - mean / cell| <= 1/2, with mean = SumOf(run) / Len(run).
NearestIndex(k, run, cell) ==
    LET num == 2 * k * cell * Len(run) - 2 * SumOf(run)
        den == cell * Len(run)
    IN  -den <= num /\ num <= den

\* The pixel the row scan is at is not a wall pixel and closes a run.
ClosesRowRun ==
    /\ mode = "scanning"
    /\ scanner.phase = "rows"
    /\ scanner.scan < img.num_cols
    /\ scanner.scan_index # <<>>
    /\ img.pix[<<horiz_midpoint + cell_height * scanner.line,
                 scanner.scan>>] # 0

\* The pixel the column scan is at is not a wall pixel and closes a run.
ClosesColRun ==
    /\ mode = "scanning"
    /\ scanner.phase = "cols"
    /\ scanner.scan < img.num_rows
    /\ scanner.scan_index # <<>>
    /\ img.pix[<<scanner.scan,
                 vert_midpoint + cell_width * scanner.line>>] # 0

---------------------------------------------------------------------------
(* C12, C13: two scenarios.                                                *)

\* find_paths has returned for start (0, 0) and finish (1, 1) on the 2 x 2
\* cell graph without interior walls.
OpenSquareReturned ==
    /\ mode = "returned"
    /\ height = 2
    /\ width = 2
    /\ \A cell \in Cells : grid[cell] = 0
    /\ start_cell = <<0, 0>>
    /\ finish_cell = <<1, 1>>

\* C12 (as claimed): on the 2 x 2 grid without interior walls, start (0, 0)
\* and finish (1, 1), find_paths returns a solution which, the flag
\* removed, has length 3 and is [(0, 0), (0, 1), (1, 1)].
C12_OpenSquarePath ==
    OpenSquareReturned =>
        /\ ReturnedSolved
        /\ Len(Tail(result.first)) = 3
        /\ Tail(result.first) = <<<<0, 0>>, <<0, 1>>, <<1, 1>>>>

\* solve_maze has reported for start (0, 0) and finish (2, 2) on the 3 x 3
\* cell graph with cell (0, 0) walled in.
CornerReported ==
    /\ mode = "unsolved"
    /\ height = 3
    /\ width = 3
    /\ grid[<<0, 0>>] = wi_right + wi_bottom
    /\ start_cell = <<0, 0>>
    /\ finish_cell = <<2, 2>>

\* C13 (as claimed): on that cell graph find_paths is unsolved, the dead
\* ends from start and the dead ends from finish both contain the cell
\* (0, 0) alone, and find_suggestions returns a non-empty result.
C13_CornerBothSetsAreCorner ==
    (mode \in {"solved", "unsolved"}
        /\ start_cell = <<0, 0>> /\ finish_cell = <<2, 2>>) =>
        /\ mode = "unsolved"
        /\ result.kind = "paths"
        /\ CellsOfPaths(result.first) = {<<0, 0>>}
        /\ CellsOfPaths(result.second) = {<<0, 0>>}
        /\ coordinates # <<>>

\* C13 (amended): on that cell graph find_paths is unsolved, the dead ends
\* from start contain the cell (0, 0) alone, the dead ends from finish
\* contain the eight other cells and not (0, 0), and find_suggestions
\* returns the RIGHT and the BOTTOM wall of (0, 0).
C13_CornerAgainstTheRest ==
    (mode \in {"solved", "unsolved"}
        /\ start_cell = <<0, 0>> /\ finish_cell = <<2, 2>>) =>
        /\ mode = "unsolved"
        /\ result.kind = "paths"
        /\ CellsOfPaths(result.first) = {<<0, 0>>}
        /\ CellsOfPaths(result.second) = Cells \ {<<0, 0>>}
        /\ CoordinatesReturned =
               {<<0, 0, wi_right>>, <<0, 0, wi_bottom>>}

\* C13 witness: solve_maze has reported on that cell graph, with two
\* suggestions.
C13_Witness ==
    /\ CornerReported
    /\ Len(coordinates) = 2
    /\ Len(result.second) = 8

---------------------------------------------------------------------------
(* C15 - C20: navigate_maze.                                               *)

\* A navigate_maze recursion is running.
Running == Searching /\ stack # <<>>

NoDuplicates(seq) ==
    \A i \in 1..Len(seq), j \in 1..Len(seq) : seq[i] = seq[j] => i = j

\* C15: every navigate_maze recursion returns; while it runs no visited
\* flag goes back to false, no cell is marked visited twice, and at most
\* width * height cells are marked.
C15_SearchTerminates ==
    /\ Running ~> (stack = <<>>)
    /\ [][(Running /\ Searching') =>
            \A cell \in Cells : visited[cell] => visited'[cell]]_vars
    /\ [](Searching =>
            /\ NoDuplicates(visit_order)
            /\ Len(visit_order) <= width * height)

\* C15 witness: a search has returned after marking every cell but the
\* one it was looking for, on a grid of more than one row and column.
C15_Witness ==
    /\ mode = "forward"
    /\ stack = <<>>
    /\ height >= 2
    /\ width >= 2
    /\ Len(visit_order) = width * height - 1

\* C16 (as claimed): when the search from start has failed, every cell
\* has visited = false and direction = none at the moment the search from
\* finish begins.
C16_ReverseStartsClean ==
    (mode = "reverse" /\ Len(stack) = 1 /\ Top.pc = "enter") =>
        \A cell \in Cells :
            ~visited[cell] /\ direction[cell] = go_none

\* C17: during a search from a cell of the grid over a cell graph made by
\* create_maze, every cell navigate_maze is called on is a cell of the
\* grid.
C17_SearchStaysInGrid ==
    mode \in {"forward", "reverse"} =>
        \A i \in 1..Len(stack) : InGrid(stack[i].from_cell)

\* C17 witness: the search is done with the last cell of the last row of a
\* grid of more than one row and column.
C17_Witness ==
    /\ mode = "forward"
    /\ stack # <<>>
    /\ height >= 2
    /\ width >= 2
    /\ Top.from_cell = <<height - 1, width - 1>>
    /\ Top.pc = "record"

\* A depth-first search from cell towards to over the wall masks m that
\* tries (row, col-1), (row-1, col), (row, col+1), (row+1, col) in that
\* order.  trail is the path from the origin to the cell before this one;
\* st collects the cells seen, the order they were seen in, the dead ends
\* (the path from the origin to each cell left without success, in the
\* order the cells are left) and the solution, the path from the origin to
\* `to`.
RECURSIVE RefSearch(_, _, _, _, _)
RefSearch(m, to, cell, trail, st) ==
    IF st.solution # <<>> THEN st
    ELSE IF cell = to THEN [st EXCEPT !.solution = Append(trail, cell)]
    ELSE IF cell \in st.seen THEN st
    ELSE LET here == Append(trail, cell)
             try(w, s) == IF HasWall(m[cell], w) THEN s
                          ELSE RefSearch(m, to, Across(cell, w), here, s)
             s0 == [st EXCEPT !.seen = @ \cup {cell},
                              !.order = Append(@, cell)]
             s4 == try(wi_bottom,
                       try(wi_right, try(wi_top, try(wi_left, s0))))
         IN  IF s4.solution # <<>> THEN s4
             ELSE [s4 EXCEPT !.dead_ends = Append(@, here)]

\* The cell the running search started from.
Origin == IF mode = "reverse" THEN finish_cell ELSE start_cell

\* The cells that were marked visited when the running search began.
SeenBefore ==
    {cell \in Cells : visited[cell]}
        \ {visit_order[i] : i \in 1..Len(visit_order)}

\* C18: when a navigate_maze recursion has returned, the sequence in which
\* it marked cells visited, the sequence of dead ends it appended to
\* all_paths and the path it returned are those of the depth-first search
\* that tries left, up, right, down in that order (navigate_maze writes
\* every path with its origin in front, and a solution with the flag in
\* front of that).
C18_LeftUpRightDownOrder ==
    (Searching /\ stack = <<>>) =>
        LET ref == RefSearch(maze, to_cell, Origin, <<>>,
                             [seen |-> SeenBefore, order |-> <<>>,
                              dead_ends |-> <<>>, solution |-> <<>>])
        IN  /\ visit_order = ref.order
            /\ all_paths = [i \in 1..Len(ref.dead_ends) |->
                               <<Origin>> \o ref.dead_ends[i]]
            /\ maze_path = IF ref.solution = <<>>
                           THEN <<Origin>>
                           ELSE <<Sentinel, Origin>> \o ref.solution

\* C18 witness: a search has returned a solution after it had recorded
\* two dead ends or more.
C18_Witness ==
    /\ mode = "forward"
    /\ stack = <<>>
    /\ maze_path[1] = Sentinel
    /\ Len(all_paths) >= 2
    /\ Len(visit_order) >= 4

\* A call has returned a path that carries the flag and the top-level call
\* has not returned yet.
FlagReturned == Running /\ Top._maze_path[1] = Sentinel

\* C19: from the moment a navigate_maze call has returned a path carrying
\* the flag until the top-level call returns, no cell is marked visited,
\* no direction is changed, nothing is appended to all_paths, no call is
\* made, and every frame passes that same path on.
C19_FlagStopsTheSearch ==
    [][FlagReturned =>
          /\ visited' = visited
          /\ direction' = direction
          /\ all_paths' = all_paths
          /\ Len(stack') <= Len(stack)
          /\ IF stack' = <<>>
             THEN maze_path' = Top._maze_path
             ELSE stack'[Len(stack')]._maze_path = Top._maze_path]_vars

\* C19 witness: a frame that holds a path carrying the flag is at its
\* "down" block, the BOTTOM wall of its cell absent, two calls deep or more.
C19_Witness ==
    /\ FlagReturned
    /\ Len(stack) >= 2
    /\ Top.pc = "down"
    /\ ~HasWall(maze[Top.from_cell], wi_bottom)

\* The innermost call returns in this step.
Returns == Running /\ Len(stack') = Len(stack) - 1

\* What it returns.
Returned ==
    IF stack' = <<>> THEN maze_path' ELSE stack'[Len(stack')]._maze_path

\* C20: a navigate_maze call that returns without the flag returns a path
\* equal to the maze_path it was given; and no step changes the maze_path
\* a frame was given, or the list of a frame that is waiting for a call.
C20_PathRestoredOnReturn ==
    [][Running =>
          /\ (Returns /\ Returned[1] # Sentinel) => Returned = Top.maze_path
          /\ \A i \in 1..Len(stack) :
                 i <= Len(stack') =>
                     /\ stack'[i].maze_path = stack[i].maze_path
                     /\ (i < Len(stack) /\ i < Len(stack')) =>
                            stack'[i]._maze_path = stack[i]._maze_path]_vars

\* C20 witness: a call two levels down or more has recorded its dead end
\* and returned, and its caller holds again the path it had built.
C20_Witness ==
    /\ Running
    /\ all_paths # <<>>
    /\ Top.pc \in {"up", "right", "down", "record"}
    /\ NotSolved(Top._maze_path)
    /\ Top._maze_path = Append(Top.maze_path, Top.from_cell)
    /\ Len(all_paths[Len(all_paths)]) > Len(Top._maze_path)

---------------------------------------------------------------------------
(* C21: the dead ends of an unsolved search.                               *)

\* The search from start on the new cell graph has returned to find_paths
\* without the flag.
ForwardUnsolved ==
    /\ mode = "forward"
    /\ stack = <<>>
    /\ ~IsSolution(maze_path)

\* The last cell of a path.
LastOf(path) == path[Len(path)]

\* C21: when the search from the origin on a new cell graph returns without
\* the flag, all_paths holds exactly one path for each cell reachable from
\* the origin: every path begins at the origin, the paths end at pairwise
\* different reachable cells, and the cells occurring in the paths are
\* exactly the reachable cells.
C21_OnePathPerReachableCell ==
    ForwardUnsolved =>
        LET reach == ReachableFrom(maze, {start_cell})
        IN  /\ Len(all_paths) = Cardinality(reach)
            /\ \A i \in 1..Len(all_paths) :
                   /\ all_paths[i][1] = start_cell
                   /\ LastOf(all_paths[i]) \in reach
            /\ \A i, j \in 1..Len(all_paths) :
                   i # j => LastOf(all_paths[i]) # LastOf(all_paths[j])
            /\ CellsOfPaths(all_paths) = reach

\* C21 witness: an unsolved search that recorded three dead ends or more,
\* in a grid with a cell it could not reach.
C21_Witness ==
    /\ ForwardUnsolved
    /\ Len(all_paths) >= 3
    /\ Cardinality(ReachableFrom(maze, {start_cell})) < width * height

---------------------------------------------------------------------------
(* C22: the wall mask and the display index.                               *)

\* The four wall bits of an index.
WallBits(index) == BitAnd(index, wi_left + wi_top + wi_right + wi_bottom)

\* C22: the wall mask and the display index are kept apart.  When
\* create_maze has returned, the display index of every cell is the value
\* the scanner wrote for it, whatever walls add_wall put into the mask, and
\* its wall bits stay that value ever after; a step that changes a display
\* index (set_as_start, set_as_finish, set_direction) changes no wall mask,
\* and a step that changes a wall mask of the assembled cell graph
\* (remove_wall) changes no display index.
C22_MaskAndDisplayApart ==
    /\ [](mode = "ready" => display = grid)
    /\ [](display # <<>> =>
             \A cell \in Cells : WallBits(display[cell]) = grid[cell])
    /\ [][/\ (mode # "scanned" /\ display' # display) => maze' = maze
          /\ (mode # "scanned" /\ maze' # maze) => display' = display]_vars

\* C22 witness: a solved maze is shown with START, FINISH, an arrow and the
\* dot in the display indexes, on a cell graph where create_maze added a
\* wall to the mask of the cell that carries the arrow.
C22_Witness ==
    /\ mode = "solved"
    /\ BitAnd(display[start_cell], wi_start) # 0
    /\ BitAnd(display[finish_cell], wi_finish + go_nodir)
           = wi_finish + go_nodir
    /\ \E cell \in Cells :
           /\ BitAnd(display[cell], go_right + go_down) # 0
           /\ maze[cell] # grid[cell]
           /\ maze[cell] # WallBits(display[cell])

---------------------------------------------------------------------------
(* C23, C24, C25, C28: what the scanner writes.                            *)

\* read_maze_file goes on after the step (no exception was raised).
ScanGoesOn == mode' \in {"scanning", "scanned"}

\* The row scan has reached the end of its line with a run still open.
FlushesRowRun ==
    /\ mode = "scanning"
    /\ scanner.phase = "rows"
    /\ scanner.scan = img.num_cols
    /\ scanner.scan_index # <<>>

\* The column scan has reached the end of its line with a run still open.
FlushesColRun ==
    /\ mode = "scanning"
    /\ scanner.phase = "cols"
    /\ scanner.scan = img.num_rows
    /\ scanner.scan_index # <<>>

\* The boundary index the code computes for the run it is about to write.
RowIndexWritten ==
    IF FlushesRowRun
    THEN FlushIndex(scanner.scan_index, cell_width)
    ELSE ClosedIndex(scanner.scan_index, cell_width)

ColIndexWritten ==
    IF FlushesColRun
    THEN FlushColIndex(scanner.scan_index, scanner.line)
    ELSE ClosedIndex(scanner.scan_index, cell_height)

\* C23 (as claimed): for every two-level image and declared width and
\* height, once read_maze_file and create_maze have returned every wall
\* mask of the cell graph is a value from 0 to 15.
C23_MasksWithinFifteen ==
    mode = "ready" => \A cell \in Cells : maze[cell] \in 0..15

\* C24 (as claimed): a run of the row scan whose boundary index is k >= 1
\* sets the RIGHT bit of the entry of column k - 1 on that row and changes
\* no other bit of the grid, and a run of the column scan whose boundary
\* index is k >= 1 sets the BOTTOM bit of the entry of row k - 1 in that
\* column and changes no other bit, however many runs went to that entry
\* before.
C24_RunSetsOneBit ==
    /\ [][((ClosesRowRun \/ FlushesRowRun) /\ ScanGoesOn
              /\ RowIndexWritten >= 1) =>
            grid' = [grid EXCEPT ![<<scanner.line, RowIndexWritten - 1>>] =
                        BitOr(@, wi_right)]]_vars
    /\ [][((ClosesColRun \/ FlushesColRun) /\ ScanGoesOn
              /\ ColIndexWritten >= 1) =>
            grid' = [grid EXCEPT ![<<ColIndexWritten - 1, scanner.line>>] =
                        BitOr(@, wi_bottom)]]_vars

\* C25 (as claimed): a run still open when a scan line ends is written as
\* a run closed by a non-wall pixel is, at the boundary index the closed
\* run rule gives for it, in the row scan and in the column scan.
C25_FlushLikeClosedRun ==
    /\ [][(FlushesRowRun /\ ScanGoesOn) =>
            LET k == ClosedIndex(scanner.scan_index, cell_width)
            IN  /\ ~RowWriteRaises(k)
                /\ grid' = RowWrite(grid, scanner.line, k)]_vars
    /\ [][(FlushesColRun /\ ScanGoesOn) =>
            LET k == ClosedIndex(scanner.scan_index, cell_height)
            IN  /\ ~ColWriteRaises(k)
                /\ grid' = ColWrite(grid, scanner.line, k)]_vars

\* C28 (as claimed): for an image that has at least height pixel rows and
\* at least width pixel columns, every write of the scanner goes to an
\* entry of the grid: no run is given a boundary index beyond the grid
\* (such a write raises IndexError).
C28_WritesInsideGrid ==
    (/\ height >= 1
     /\ width >= 1
     /\ img.num_rows >= height
     /\ img.num_cols >= width) => mode # "IndexError"

---------------------------------------------------------------------------
(* C26: the internal error of find_suggestions.                            *)

\* C26: find_suggestions does not raise its internal error for paths of
\* cells with integer coordinates: every pair it selects at distance 1
\* differs by 1 in exactly one coordinate and is given one of the four
\* walls.
C26_NoInternalError ==
    /\ mode # "ValueError"
    /\ result.kind = "paths" =>
           \A c \in Candidates(result.first, result.second) :
               /\ WallIndexOf(c) \in Walls
               /\ \/ c[1][1] = c[2][1]
                  \/ c[1][2] = c[2][2]

\* C26 witness: find_suggestions has returned a suggestion for each of the
\* two cells of a path, one on a row and one on a column, some of the cells
\* involved having a negative coordinate.
C26_Witness ==
    /\ mode = "unsolved"
    /\ result.kind = "paths"
    /\ start_cell = <<>>
    /\ Len(coordinates) = 2
    /\ {coordinates[1][3], coordinates[2][3]} = {wi_left, wi_bottom}
    /\ \E c \in Candidates(result.first, result.second) :
           c[1][1] = -1 \/ c[1][2] = -1

---------------------------------------------------------------------------
(* C27: what the lists of dead ends hold.                                  *)

\* The cells the running search has marked.
Marked == {visit_order[i] : i \in 1..Len(visit_order)}

\* C27: the lists of dead ends start empty in every find_paths call and
\* are kept apart for the two searches.  While a search of find_paths runs
\* and when it has returned, the list it was given holds only paths that
\* search recorded: they begin at its origin and end at pairwise different
\* cells that it marked.  from_start is the list of the search from start
\* and is not changed by the search from finish, and find_paths returns
\* from_start and the list of the search from finish.
C27_ListsPerCallAndDirection ==
    /\ [](mode \in {"forward", "reverse"} =>
             /\ \A i \in 1..Len(all_paths) :
                    /\ all_paths[i][1] = Origin
                    /\ LastOf(all_paths[i]) \in Marked
             /\ \A i, j \in 1..Len(all_paths) :
                    i # j => LastOf(all_paths[i]) # LastOf(all_paths[j]))
    /\ [][(mode = "forward" /\ mode' # "forward") =>
              from_start' = all_paths]_vars
    /\ [][mode = "reverse" => from_start' = from_start]_vars
    /\ [](ReturnedUnsolved =>
             /\ result.first = from_start
             /\ result.second = all_paths)

\* C27 witness: find_paths has returned its two lists for the second time
\* on a cell graph where its first call had returned dead ends in both
\* lists.
C27_Witness ==
    /\ ReturnedUnsolved
    /\ prev # <<>>
    /\ prev[3].kind = "paths"
    /\ prev[3].first # <<>>
    /\ prev[3].second # <<>>

---------------------------------------------------------------------------
(* C29: successive solves on one cell graph.                               *)

\* C29 (as claimed): in every solve_maze call of a sequence of calls on one
\* cell graph, with start and finish cells of the grid, the first list
\* find_paths returns is not empty, so that indexing from_start[0] does not
\* raise and the call reports solved or unsolved.
C29_EveryCallReports ==
    /\ mode = "returned" => result.first # <<>>
    /\ mode # "IndexError"

---------------------------------------------------------------------------
(* C30: the arrows of a solution.                                          *)

\* The direction value of the move from cell a to the adjacent cell b.
MoveBetween(a, b) ==
    IF b = Across(a, wi_left) THEN go_left
    ELSE IF b = Across(a, wi_top) THEN go_up
    ELSE IF b = Across(a, wi_right) THEN go_right
    ELSE IF b = Across(a, wi_bottom) THEN go_down
    ELSE go_none

\* The direction bits of a display index.
ArrowOf(index) ==
    BitAnd(index, go_nodir + go_left + go_up + go_right + go_down)

\* C30: when find_paths returns a solution on a new cell graph, the
\* direction attribute of every cell of the path but the finish cell is the
\* move from that cell to the next different cell of the path; and when
\* solve_maze has shown the solution, the display index of each of those
\* cells carries the arrow of that move and no other, and the display index
\* of the finish cell carries the dot.
C30_ArrowsTraceThePath ==
    /\ ReturnedSolved =>
           LET path == Tail(result.first)
           IN  \A i \in 1..(Len(path) - 1) :
                   path[i] # path[i + 1] =>
                       /\ MoveBetween(path[i], path[i + 1]) # go_none
                       /\ direction[path[i]] =
                              MoveBetween(path[i], path[i + 1])
    /\ mode = "solved" =>
           /\ \A i \in 1..(Len(solution) - 1) :
                  solution[i] # solution[i + 1] =>
                      ArrowOf(display[solution[i]]) =
                          MoveBetween(solution[i], solution[i + 1])
           /\ solution[Len(solution)] = finish_cell
           /\ ArrowOf(display[finish_cell]) = go_nodir

\* C30 witness: a solution of three moves or more is shown, with an arrow
\* to the left on it, found after the search had recorded a dead end.
C30_Witness ==
    /\ mode = "solved"
    /\ Len(solution) >= 5
    /\ from_start # <<>>
    /\ \E i \in 1..Len(solution) : ArrowOf(display[solution[i]]) = go_left

====
